---- MODULE Spec2Model ----
(***************************************************************************)
(* A model of the RPHash core of quasemsm/rphash:                          *)
(*   - the top-k heavy-hitter Count-Min Sketch (package itemset,           *)
(*     KHHCountMinSketch) with its priority queue and its two maps;        *)
(*   - the two-pass driver (package simple, Simple.Map / Simple.Reduce)    *)
(*     over the stream object of package reader.                           *)
(* Spec        : one sketch under Add and GetTop (the queue discipline).   *)
(* SpecCount   : one sketch under Add and direct AddLong (the counters).   *)
(* SpecGet     : one sketch under Add, GetTop and GetCounts.               *)
(* SpecSimple  : one Simple over one StreamObject, Map then Reduce.        *)
(***************************************************************************)
EXTENDS Integers, Sequences, FiniteSets, TLC

(* ------------------------------ bounds -------------------------------- *)
\* largest label (int64 item) fed to the sketch: labels are 0..MaxLabel
MaxLabel == 3
\* largest argument m of NewKHHCountMinSketch in Spec
MaxM == 3
\* number of Add calls explored on one sketch in Spec
MaxAdds == 5
\* largest item fed to the sketch in SpecCount: items are 0..MaxItem
MaxItem == 3
\* largest count passed to a direct AddLong call
MaxCount == 2
\* number of Add / AddLong calls explored on one sketch in SpecCount
MaxOps == 3

\* number of Add calls explored on one sketch in SpecGet
MaxGetAdds == 3
\* largest target cluster count K of the stream object in SpecSimple
MaxK == 3
\* largest number of vectors the iterator of the stream object yields
MaxN == 3
\* largest input vector in SpecSimple: vectors are 0..MaxVec
MaxVec == 3
\* largest number of runs of the two passes on one Simple
MaxRuns == 2

Labels == 0..MaxLabel
Items == 0..MaxItem
Vectors == 0..MaxVec
\* every value the observation keeps a true count for
AllLabels == Labels \cup Items \cup Vectors

\* the coefficient vectors hashA the constructor is taken to draw (each value is
\* one random.Int63n(2147483647) can return): row 0 degenerate, two
\* different rows
HashASamples == {<<0, 1>>, <<1, 2>>}

(* --------------------------- program constants ------------------------ *)
\* part_000:13,30  table [depth][width]int64: package-level constants whose
\* definitions are not in the sources; the specification fixes depth = 2.
depth == 2
width == 3
\* part_000:50  PRIME_MODULUS = (int64(1) << 31) - 1
PRIME_MODULUS == 2147483647
\* math.Log scaled by LnScale (natural logarithm, six decimals)
LnScale == 1000000
\* int(NaN) on amd64 is the least int64; TLC's integers are 32 bits wide, so
\* the least value they hold stands for it (it is only compared with queue
\* sizes)
IntMin == -2147483647
\* streamobject.go:36  numberOfBlurs: 2
NumberOfBlurs == 2

VARIABLES
    \* ---- KHHCountMinSketch fields (part_000:10-23)
    k,              \* capacity of the priority queue
    hashA,          \* per-row hash coefficients
    table,          \* [row -> [column -> counter]]
    size,           \* total of the counts added
    priorityQueue,  \* sequence of entries [label, key], head first
    items,          \* membership map: HashCode(label) -> label
    countlist,      \* count map: HashCode(label) -> estimate
    counts,         \* slice, [nil, elems]
    topcent,        \* slice, [nil, elems]
    \* ---- observation of the calls made on the sketch
    trueCount,      \* label -> total count really added for it
    last,           \* the last call: its name, arguments, result and steps
    calls,          \* numbers of calls made so far, by kind
    \* ---- StreamObject fields (streamobject.go:9-21)
    soK,            \* k, the target cluster count
    data,           \* the vectors the iterator yields
    dataPos,        \* the iterator: number of vectors already fetched
    topIDs,         \* slice, [nil, elems]
    soCentroids,    \* centroids appended by AddCentroid
    \* ---- Simple (part_001:9-13) and the locals of Map and Reduce
    pc,             \* position of the driver
    simCentroids,   \* Simple.centroids, [nil, elems]
    vec,            \* Reduce: index in data of the vector held in vec, 0 if none
    centroids,      \* Reduce: the local centroid list
    \* ---- observation of the Reduce pass
    reduceLog,      \* what Reduce fetched, hashed and updated
    runs,           \* number of runs of Map and Reduce completed
    \* ---- RandomProjection fields (rp.go:8-14)
    rpM,            \* M: per output row, the stored list of negative indices
    rpP,            \* P: per output row, the stored list of positive indices
    rpN,            \* n, the original dimension
    rpT,            \* t, the projected dimension
    \* ---- observation of the Project calls
    projLast,       \* the last Project call: its vector and its outcome
    projRef,        \* the first Project call: its vector and its outcome
    projOther,      \* a call on another vector than projRef.v came after it
    \* ---- Parser fields (parser.go:64-68)
    schemaKeys,     \* the field keys, in the order CreateSchema appended them
    schema,         \* the keys of the schema map, {} for nil
    parserLabel,    \* label, the label of the table parsed last
    \* ---- observation of the JSONToFloat64Matrix calls
    parseLast       \* the last call: its table, its outcome, the calls so far

sketchVars == <<k, hashA, table, size, priorityQueue, items, countlist, counts, topcent>>
obsVars == <<trueCount, last, calls>>
simpleVars == <<soK, data, dataPos, topIDs, soCentroids, pc, simCentroids, vec,
                centroids, reduceLog, runs>>
rpVars == <<rpM, rpP, rpN, rpT>>
projVars == <<rpVars, projLast, projRef, projOther>>
parseVars == <<schemaKeys, schema, parserLabel, parseLast>>
vars == <<sketchVars, obsVars, simpleVars, projVars, parseVars>>

(* ------------------------------ Go values ----------------------------- *)
\* a nil slice and a non-nil slice holding s
NilSlice == [nil |-> TRUE, elems |-> <<>>]
Slice(s) == [nil |-> FALSE, elems |-> s]

\* m[key] = v on a Go map
MapPut(m, key, v) == [x \in (DOMAIN m) \cup {key} |-> IF x = key THEN v ELSE m[x]]
\* delete(m, key) on a Go map
MapDelete(m, key) == [x \in (DOMAIN m) \ {key} |-> m[x]]
EmptyMap == [x \in {} |-> 0]

\* int(f) for a float64 f >= 0 given as the fraction num / den: truncation
TruncDiv(num, den) == num \div den

\* math.Log(float64(m)) * LnScale for the arguments the model uses (m >= 1)
LnMicro(m) ==
    CASE m = 1 -> 0
      [] m = 2 -> 693147
      [] m = 3 -> 1098612
      [] m = 4 -> 1386294
      [] m = 5 -> 1609438
      [] m = 6 -> 1791759
      [] m = 7 -> 1945910
      [] m = 8 -> 2079442
      [] m = 9 -> 2197225
      [] OTHER -> 2302585

\* int(float64(m) * math.Log(float64(m))), m >= 1   (part_000:26, part_001:33)
CapacityOf(m) == TruncDiv(m * LnMicro(m), LnScale)

\* the values int(float64(m) * math.Log(float64(m))) can take. For m = 0 the
\* product is 0 * -Inf = NaN, and the conversion of NaN to int is
\* implementation-dependent: 0 (arm64) or the least int64 (amd64).
CapacityChoices(m) == IF m = 0 THEN {0, IntMin} ELSE {CapacityOf(m)}

(* ------------------------------ the hash ------------------------------ *)
\* utils.HashCode on an int64 label: the identity
HashCode(e) == e

\* hash >> 32 on an int64 (arithmetic shift = floor division by 2^32)
Shr32(h) == (h \div 65536) \div 65536

\* hash & PRIME_MODULUS on an int64 within the 32-bit range of TLC's
\* integers: the low 31 bits
And31(h) == IF h >= 0 THEN h ELSE (h + PRIME_MODULUS) + 1

\* KHHCountMinSketch.Hash(item, i)
Hash(item, i) ==
    LET h0 == hashA[i] * item
        h1 == h0 + Shr32(h0)
        h2 == And31(h1)
    IN  h2 % width

(* ---------------------------- AddLong -------------------------------- *)
\* AddLongTable with the increment of the rows i >= 1 lost
AddLongTableRow0(t, item, count) ==
    [i \in 0..(depth - 1) |->
        [j \in 0..(width - 1) |->
            IF i = 0 /\ j = Hash(item, i) THEN t[i][j] + count ELSE t[i][j]]]

\* AddLongTable as a conservative update: only the counters of the item that
\* hold the least of its counters are raised
AddLongTableConservative(t, item, count) ==
    LET least == IF \A i \in 0..(depth - 1) : t[0][Hash(item, 0)] <= t[i][Hash(item, i)]
                 THEN t[0][Hash(item, 0)]
                 ELSE CHOOSE c \in {t[i][Hash(item, i)] : i \in 0..(depth - 1)} :
                          \A i \in 0..(depth - 1) : c <= t[i][Hash(item, i)]
    IN  [i \in 0..(depth - 1) |->
            [j \in 0..(width - 1) |->
                IF j = Hash(item, i) /\ t[i][j] = least THEN t[i][j] + count ELSE t[i][j]]]

\* the table after table[i][Hash(item, i)] += count in every row i
AddLongTable(t, item, count) ==
    [i \in 0..(depth - 1) |->
        [j \in 0..(width - 1) |->
            IF j = Hash(item, i) THEN t[i][j] + count ELSE t[i][j]]]

\* the loop of AddLong from row i on, with the running minimum
RECURSIVE AddLongLoop(_, _, _, _)
AddLongLoop(t, item, i, min) ==
    IF i >= depth THEN min
    ELSE LET c == t[i][Hash(item, i)]
         IN  AddLongLoop(t, item, i + 1, IF c < min THEN c ELSE min)

\* AddLongMin returning the counter of row 0
AddLongMinRow0(t, item) == t[0][Hash(item, 0)]

\* the value AddLong returns, t being the table after the increments
AddLongMin(t, item) == AddLongLoop(t, item, 1, t[0][Hash(item, 0)])

\* AddLongSize with the addition made once per row
AddLongSizePerRow(s, count) == s + (depth * count)

\* this.size += count
AddLongSize(s, count) == s + count

(* ------------------------- the priority queue ------------------------- *)
\* utils.Int64PriorityQueue: a min-queue of labels ordered by the estimate
\* the label had when it was pushed, ties in arrival order.
RECURSIVE InsertByKey(_, _)
InsertByKey(q, entry) ==
    IF q = <<>> THEN <<entry>>
    ELSE IF entry.key < Head(q).key THEN <<entry>> \o q
    ELSE <<Head(q)>> \o InsertByKey(Tail(q), entry)

\* Enqueue(e), e's key being its estimate in the count map
Enqueue(q, e, key) == InsertByKey(q, [label |-> e, key |-> key])
\* Poll(): the head is removed and returned
PollHead(q) == Head(q).label
PollRest(q) == Tail(q)
\* Dequeue(): takes no argument; the head is removed (nothing on an empty queue)
Dequeue(q) == IF q = <<>> THEN q ELSE Tail(q)
\* the label Dequeue() removes, -1 when the queue is empty
DequeuedLabel(q) == IF q = <<>> THEN -1 ELSE Head(q).label

QueueLabels(q) == {q[i].label : i \in 1..Len(q)}
EntriesOf(q, e) == Cardinality({i \in 1..Len(q) : q[i].label = e})

(* ------------------------------ Init ---------------------------------- *)
NoCall == [op |-> "none", item |-> -1, count |-> 0, ret |-> 0, tracked |-> FALSE,
           dequeued |-> -1, entriesAfterReadd |-> 0, polled |-> <<>>,
           drainedBefore |-> FALSE, top |-> NilSlice, cnts |-> NilSlice]
NoCalls == [add |-> 0, addLong |-> 0, ones |-> 0, other |-> 0]

\* the sketch NewKHHCountMinSketch returns, cap being int(m * ln m) and a the
\* coefficients drawn. The constructor fills a local hashA (part_000:31-35) and
\* never assigns result.hashA (part_000:36-46); the model lets the sketch
\* carry the drawn coefficients, which is what Hash (part_000:49-55) needs to
\* run at all.
NewKHHCountMinSketch(cap, a) ==
    [k |-> cap,
     hashA |-> [i \in 0..(depth - 1) |-> a[i + 1]],
     table |-> [i \in 0..(depth - 1) |-> [j \in 0..(width - 1) |-> 0]],
     size |-> 0,
     priorityQueue |-> <<>>,
     items |-> EmptyMap,
     countlist |-> EmptyMap,
     counts |-> NilSlice,
     topcent |-> NilSlice]

\* the sketch variables hold the sketch s
SketchIs(s) ==
    /\ k = s.k
    /\ hashA = s.hashA
    /\ table = s.table
    /\ size = s.size
    /\ priorityQueue = s.priorityQueue
    /\ items = s.items
    /\ countlist = s.countlist
    /\ counts = s.counts
    /\ topcent = s.topcent

NoReduceLog == [fetched |-> <<>>, hashed |-> <<>>, updates |-> <<>>, restarted |-> FALSE]

\* no Simple is running: the variables of the driver rest
SimpleIdle ==
    /\ soK = 0
    /\ data = <<>>
    /\ dataPos = 0
    /\ topIDs = NilSlice
    /\ soCentroids = NilSlice
    /\ pc = "sketch"
    /\ simCentroids = NilSlice
    /\ vec = 0
    /\ centroids = <<>>
    /\ reduceLog = NoReduceLog
    /\ runs = 0

\* the outcome of a Project call: the vector returned, or the run-time panic
NoOutcome == [panic |-> FALSE, r |-> <<>>]
NoProject == [op |-> "none", v |-> <<>>, out |-> NoOutcome]
NoRef == [set |-> FALSE, v |-> <<>>, out |-> NoOutcome]

\* no RandomProjection is in use: its variables rest
ProjIdle ==
    /\ rpM = <<>>
    /\ rpP = <<>>
    /\ rpN = 0
    /\ rpT = 0
    /\ projLast = NoProject
    /\ projRef = NoRef
    /\ projOther = FALSE

\* the Parser NewParser returns (parser.go:70-77), and no call made on it
NoParse == [op |-> "none", rows |-> <<>>, out |-> [panic |-> FALSE, matrix |-> <<>>],
            calls |-> 0]
ParseIdle ==
    /\ schemaKeys = <<>>
    /\ schema = {}
    /\ parserLabel = ""
    /\ parseLast = NoParse

Init ==
    /\ \E m \in 1..MaxM : \E cap \in CapacityChoices(m) : \E a \in HashASamples :
          SketchIs(NewKHHCountMinSketch(cap, a))
    /\ trueCount = [x \in AllLabels |-> 0]
    /\ last = NoCall
    /\ calls = NoCalls
    /\ SimpleIdle
    /\ ProjIdle
    /\ ParseIdle

(* ------------------------------ Add ----------------------------------- *)
\* the queue after the two branches of Add (part_000:59-68)
AddQueue(q, e, tracked, count) ==
    IF ~tracked THEN Enqueue(q, e, count)
    ELSE Enqueue(Dequeue(q), e, count)

\* Overflows with the capacity off by one
OverflowsLate(q, cap) == Len(q) > cap + 1

\* part_000:70  this.priorityQueue.Size() > this.k
Overflows(q, cap) == Len(q) > cap

\* the maps after the eviction step of Add (part_000:70-73)
EvictItems(it, removed) == MapDelete(it, removed)
EvictCountlist(cl, removed) == cl

AddBody(e) ==
    LET h == HashCode(e)
        t1 == AddLongTable(table, h, 1)
        count == AddLongMin(t1, h)
        tracked == h \in DOMAIN items
        q1 == AddQueue(priorityQueue, e, tracked, count)
        it1 == MapPut(items, h, e)
        cl1 == MapPut(countlist, h, count)
        over == Overflows(q1, k)
        removed == PollHead(q1)
    IN  /\ table' = t1
        /\ size' = AddLongSize(size, 1)
        /\ priorityQueue' = IF over THEN PollRest(q1) ELSE q1
        /\ items' = IF over THEN EvictItems(it1, removed) ELSE it1
        /\ countlist' = IF over THEN EvictCountlist(cl1, removed) ELSE cl1
        /\ trueCount' = [trueCount EXCEPT ![h] = @ + 1]
        /\ last' = [NoCall EXCEPT !.op = "Add", !.item = e, !.count = 1, !.ret = count,
                        !.tracked = tracked,
                        !.dequeued = IF tracked THEN DequeuedLabel(priorityQueue) ELSE -1,
                        !.entriesAfterReadd = EntriesOf(q1, e),
                        !.polled = IF over THEN <<removed>> ELSE <<>>,
                        !.drainedBefore = ~topcent.nil]
        /\ calls' = [calls EXCEPT !.add = @ + 1, !.ones = @ + 1]
        /\ UNCHANGED <<k, hashA, counts, topcent>>

\* Add(e) in Spec
Add(e) == calls.add < MaxAdds /\ AddBody(e) /\ UNCHANGED <<simpleVars, projVars, parseVars>>

\* Add(e) in SpecCount
CountAdd(e) == calls.add + calls.addLong < MaxOps /\ AddBody(e) /\ UNCHANGED <<simpleVars, projVars, parseVars>>

\* Add(e) in SpecGet
GetAdd(e) == calls.add < MaxGetAdds /\ AddBody(e) /\ UNCHANGED <<simpleVars, projVars, parseVars>>

AddLong(item, count) ==
    LET t1 == AddLongTable(table, item, count)
    IN  /\ calls.add + calls.addLong < MaxOps
        /\ table' = t1
        /\ size' = AddLongSize(size, count)
        /\ trueCount' = [trueCount EXCEPT ![item] = @ + count]
        /\ last' = [NoCall EXCEPT !.op = "AddLong", !.item = item, !.count = count,
                        !.ret = AddLongMin(t1, item),
                        !.drainedBefore = ~topcent.nil]
        /\ calls' = [calls EXCEPT !.addLong = @ + 1,
                        !.ones = IF count = 1 THEN @ + 1 ELSE @,
                        !.other = IF count = 1 THEN @ ELSE @ + 1]
        /\ UNCHANGED <<k, hashA, priorityQueue, items, countlist, counts, topcent>>
        /\ UNCHANGED <<simpleVars, projVars, parseVars>>

(* ------------------------------ GetTop -------------------------------- *)
\* the loop of GetTop: the labels polled until the queue is empty
RECURSIVE DrainLabels(_)
DrainLabels(q) == IF q = <<>> THEN <<>> ELSE <<PollHead(q)>> \o DrainLabels(PollRest(q))

\* counts = append(counts, countlist[HashCode(tmp)]): a missing key reads 0
CountOf(cl, label) == IF HashCode(label) \in DOMAIN cl THEN cl[HashCode(label)] ELSE 0
\* DrainCounts taking each count from the key the entry was pushed with
DrainCountsByKey(q, cl) == [i \in 1..Len(q) |-> q[i].key]
DrainCounts(q, cl) == [i \in 1..Len(q) |-> CountOf(cl, DrainLabels(q)[i])]

\* GetTopBody without the test of topcent: every call drains the queue again
GetTopBodyNoCache ==
    /\ topcent' = Slice(DrainLabels(priorityQueue))
    /\ counts' = Slice(DrainCounts(priorityQueue, countlist))
    /\ priorityQueue' = <<>>

\* the state part of GetTop, shared with GetCounts
GetTopBody ==
    IF ~topcent.nil
    THEN UNCHANGED <<priorityQueue, counts, topcent>>
    ELSE /\ topcent' = Slice(DrainLabels(priorityQueue))
         /\ counts' = Slice(DrainCounts(priorityQueue, countlist))
         /\ priorityQueue' = <<>>

GetTop ==
    /\ GetTopBody
    /\ last' = [NoCall EXCEPT !.op = "GetTop", !.top = topcent', !.cnts = counts',
                    !.drainedBefore = ~topcent.nil,
                    !.polled = IF topcent.nil THEN DrainLabels(priorityQueue) ELSE <<>>]
    /\ UNCHANGED <<k, hashA, table, size, items, countlist, trueCount, calls>>
    /\ UNCHANGED <<simpleVars, projVars, parseVars>>

GetCounts ==
    /\ IF ~counts.nil
       THEN UNCHANGED <<priorityQueue, counts, topcent>>
       ELSE GetTopBody
    /\ last' = [NoCall EXCEPT !.op = "GetCounts", !.top = topcent', !.cnts = counts',
                    !.drainedBefore = ~topcent.nil]
    /\ UNCHANGED <<k, hashA, table, size, items, countlist, trueCount, calls>>
    /\ UNCHANGED <<simpleVars, projVars, parseVars>>

\* the queue discipline: Add and GetTop on one sketch
Next ==
    \/ \E e \in Labels : Add(e)
    \/ GetTop

Spec == Init /\ [][Next]_vars

\* the counters: Add and direct AddLong calls on one sketch
NextCount ==
    \/ \E e \in Items : CountAdd(e)
    \/ \E x \in Items : \E c \in 1..MaxCount : AddLong(x, c)

\* a sketch of the largest capacity
InitCount ==
    /\ \E cap \in CapacityChoices(MaxM) : \E a \in HashASamples :
          SketchIs(NewKHHCountMinSketch(cap, a))
    /\ trueCount = [x \in AllLabels |-> 0]
    /\ last = NoCall
    /\ calls = NoCalls
    /\ SimpleIdle
    /\ ProjIdle
    /\ ParseIdle

SpecCount == InitCount /\ [][NextCount]_vars

\* extraction: Add, GetTop and GetCounts on one sketch
NextGet ==
    \/ \E e \in Items : GetAdd(e)
    \/ GetTop
    \/ GetCounts

SpecGet == Init /\ [][NextGet]_vars

(* ------------------------- the stream object -------------------------- *)
\* the vector iterator of the stream object: HasNext() and the index Next() yields
HasNext == dataPos < Len(data)
NextIndex == dataPos + 1

\* LSH.LSHHashSimple(vec): the lattice cell of the vector (cells are two wide)
LSHHashSimple(v) == v \div 2
\* LSH.LSHHashStream(vec, b): the cells of b perturbations of the vector
LSHHashStream(v, b) == [j \in 1..b |-> (v + (j - 1)) \div 2]

\* defaults.NewCentroid(dim, id): an empty centroid labelled id
NewCentroid(id) == [ids |-> {id}, count |-> 0, sum |-> 0]
\* Centroid.UpdateVector(vec)
UpdateVector(c, v) == [c EXCEPT !.count = @ + 1, !.sum = @ + v]
\* Centroid.Centroid(): the mean, kept as the fraction sum / count
CentroidOf(c) == [num |-> c.sum, den |-> c.count]

\* StreamObject.AddCentroid(v): append on a slice
AppendSlice(sl, v) == Slice(Append(sl.elems, v))
RECURSIVE AppendAll(_, _)
AppendAll(sl, vs) == IF vs = <<>> THEN sl ELSE AppendAll(AppendSlice(sl, Head(vs)), Tail(vs))

(* ------------------------------- Map ---------------------------------- *)
\* part_001:33  k := int(float64(GetK()) * math.Log(float64(GetK())))
MapCapacity(bigK) == CapacityChoices(bigK)
\* defaults.NewCountMinSketch(k): NewKHHCountMinSketch(k), which applies
\* int(m * ln m) to its argument again (part_000:26)
SketchCapacity(k1) == CapacityChoices(k1)

\* Map up to the loop (part_001:23-34)
MapBegin ==
    /\ pc = "start"
    /\ UNCHANGED <<projVars, parseVars>>
    /\ UNCHANGED runs
    /\ IF ~HasNext
       THEN /\ pc' = "mapped"
            /\ UNCHANGED <<sketchVars, obsVars>>
       ELSE /\ \E k1 \in MapCapacity(soK) : \E cap \in SketchCapacity(k1) :
               \E a \in HashASamples :
                 LET s == NewKHHCountMinSketch(cap, a)
                 IN  /\ k' = s.k
                     /\ hashA' = s.hashA
                     /\ table' = s.table
                     /\ size' = s.size
                     /\ priorityQueue' = s.priorityQueue
                     /\ items' = s.items
                     /\ countlist' = s.countlist
                     /\ counts' = s.counts
                     /\ topcent' = s.topcent
            /\ trueCount' = [x \in AllLabels |-> 0]
            /\ last' = NoCall
            /\ calls' = NoCalls
            /\ pc' = "map"
    /\ UNCHANGED <<soK, data, dataPos, topIDs, soCentroids, simCentroids, vec,
                   centroids, reduceLog>>

\* one turn of the loop of Map (part_001:35-39)
MapStep ==
    /\ pc = "map"
    /\ UNCHANGED <<projVars, parseVars>>
    /\ UNCHANGED runs
    /\ HasNext
    /\ AddBody(LSHHashSimple(data[NextIndex]))
    /\ dataPos' = NextIndex
    /\ UNCHANGED <<soK, data, topIDs, soCentroids, pc, simCentroids, vec,
                   centroids, reduceLog>>

\* SetPreviousTopID(countMin.GetTop()) (part_001:40-41)
MapEnd ==
    /\ pc = "map"
    /\ UNCHANGED <<projVars, parseVars>>
    /\ UNCHANGED runs
    /\ ~HasNext
    /\ GetTopBody
    /\ topIDs' = topcent'
    /\ last' = [NoCall EXCEPT !.op = "GetTop", !.top = topcent', !.cnts = counts',
                    !.drainedBefore = ~topcent.nil,
                    !.polled = IF topcent.nil THEN DrainLabels(priorityQueue) ELSE <<>>]
    /\ pc' = "mapped"
    /\ UNCHANGED <<k, hashA, table, size, items, countlist, trueCount, calls>>
    /\ UNCHANGED <<soK, data, dataPos, soCentroids, simCentroids, vec, centroids,
                   reduceLog>>

\* the source of the vectors is restarted between the two passes
RestartIterator ==
    /\ pc = "mapped"
    /\ UNCHANGED <<projVars, parseVars>>
    /\ UNCHANGED runs
    /\ dataPos > 0
    /\ dataPos' = 0
    /\ reduceLog' = [reduceLog EXCEPT !.restarted = TRUE]
    /\ UNCHANGED <<sketchVars, obsVars>>
    /\ UNCHANGED <<soK, data, topIDs, soCentroids, pc, simCentroids, vec, centroids>>

(* ------------------------------ Reduce -------------------------------- *)
\* the values h of  for h := range hash  (part_001:63): the indices of hash
RangeKeys(hash) == {i - 1 : i \in 1..Len(hash)}

\* the inner loop (part_001:63-68): cent is updated when one h is in cent.ids
Matches(cent, hash) == \E h \in RangeKeys(hash) : h \in cent.ids

\* the loop over the centroids (part_001:62-69): the indices of the centroids
\* updated with one vector, in order; break leaves the inner loop only
RECURSIVE MatchedFrom(_, _, _)
MatchedFrom(cents, hash, i) ==
    IF i > Len(cents) THEN <<>>
    ELSE IF Matches(cents[i], hash)
         THEN <<i>> \o MatchedFrom(cents, hash, i + 1)
         ELSE MatchedFrom(cents, hash, i + 1)

MatchedCentroids(cents, hash) == MatchedFrom(cents, hash, 1)

InSeq(x, sq) == \E i \in 1..Len(sq) : sq[i] = x

\* Reduce up to the loop (part_001:44-59)
ReduceBegin ==
    /\ pc = "mapped"
    /\ UNCHANGED <<projVars, parseVars>>
    /\ UNCHANGED runs
    /\ IF ~HasNext
       THEN /\ pc' = "reduced"
            /\ UNCHANGED <<dataPos, vec, centroids, reduceLog>>
       ELSE /\ vec' = NextIndex
            /\ dataPos' = NextIndex
            /\ centroids' = [i \in 1..Len(topIDs.elems) |-> NewCentroid(topIDs.elems[i])]
            /\ reduceLog' = [reduceLog EXCEPT !.fetched = <<NextIndex>>,
                                 !.hashed = <<>>, !.updates = <<>>]
            /\ pc' = "reduce"
    /\ UNCHANGED <<sketchVars, obsVars>>
    /\ UNCHANGED <<soK, data, topIDs, soCentroids, simCentroids>>

\* one turn of the loop of Reduce (part_001:60-71)
ReduceStep ==
    /\ pc = "reduce"
    /\ UNCHANGED <<projVars, parseVars>>
    /\ UNCHANGED runs
    /\ HasNext
    /\ LET hash == LSHHashStream(data[vec], NumberOfBlurs)
           hit == MatchedCentroids(centroids, hash)
       IN  /\ centroids' = [i \in 1..Len(centroids) |->
                               IF InSeq(i, hit) THEN UpdateVector(centroids[i], data[vec])
                               ELSE centroids[i]]
           /\ reduceLog' = [reduceLog EXCEPT
                               !.hashed = Append(@, vec),
                               !.updates = @ \o [j \in 1..Len(hit) |->
                                                   [vec |-> vec, cent |-> hit[j]]],
                               !.fetched = Append(@, NextIndex)]
    /\ vec' = NextIndex
    /\ dataPos' = NextIndex
    /\ UNCHANGED <<sketchVars, obsVars>>
    /\ UNCHANGED <<soK, data, topIDs, soCentroids, pc, simCentroids>>

\* AddCentroid(cent.Centroid()) for every centroid (part_001:72-75)
ReduceEnd ==
    /\ pc = "reduce"
    /\ UNCHANGED <<projVars, parseVars>>
    /\ UNCHANGED runs
    /\ ~HasNext
    /\ soCentroids' = AppendAll(soCentroids,
                                [i \in 1..Len(centroids) |-> CentroidOf(centroids[i])])
    /\ pc' = "reduced"
    /\ UNCHANGED <<sketchVars, obsVars>>
    /\ UNCHANGED <<soK, data, dataPos, topIDs, simCentroids, vec, centroids, reduceLog>>

\* Run after Map and Reduce: this.centroids = GetCentroids() (part_001:88)
RunEnd ==
    /\ pc = "reduced"
    /\ UNCHANGED <<projVars, parseVars>>
    /\ simCentroids' = soCentroids
    /\ runs' = runs + 1
    /\ pc' = "ran"
    /\ UNCHANGED <<sketchVars, obsVars>>
    /\ UNCHANGED <<soK, data, dataPos, topIDs, soCentroids, vec, centroids, reduceLog>>

\* Run starts over (part_001:85-87): Map and Reduce run again on the same
\* stream object, whose source of vectors has been restarted; their locals
\* are fresh
RunStart ==
    /\ pc' = "start"
    /\ dataPos' = 0
    /\ vec' = 0
    /\ centroids' = <<>>
    /\ reduceLog' = NoReduceLog
    /\ UNCHANGED <<sketchVars, obsVars, projVars, parseVars>>
    /\ UNCHANGED <<soK, data, topIDs, soCentroids, simCentroids, runs>>

\* Run called again on the same Simple (part_001:85-89)
Run ==
    /\ pc = "ran"
    /\ runs < MaxRuns
    /\ RunStart

\* GetCentroids after a Run that left this.centroids nil (part_001:78-81):
\* it calls Run
GetCentroids ==
    /\ pc = "ran"
    /\ runs < MaxRuns
    /\ simCentroids.nil
    /\ RunStart

\* NewStreamObject(dimension, k) over the vectors d, and NewSimple on it
InitSimple ==
    /\ SketchIs(NewKHHCountMinSketch(0, <<0, 0>>))
    /\ trueCount = [x \in AllLabels |-> 0]
    /\ last = NoCall
    /\ calls = NoCalls
    /\ soK \in 1..MaxK
    /\ \E n \in 0..MaxN : data \in [1..n -> Vectors]
    /\ dataPos = 0
    /\ topIDs = NilSlice
    /\ soCentroids = NilSlice
    /\ pc = "start"
    /\ simCentroids = NilSlice
    /\ vec = 0
    /\ centroids = <<>>
    /\ reduceLog = NoReduceLog
    /\ runs = 0
    /\ ProjIdle
    /\ ParseIdle

NextSimple ==
    \/ MapBegin
    \/ MapStep
    \/ MapEnd
    \/ RestartIterator
    \/ ReduceBegin
    \/ ReduceStep
    \/ ReduceEnd
    \/ RunEnd
    \/ Run
    \/ GetCentroids

SpecSimple == InitSimple /\ [][NextSimple]_vars

(* ====================== RandomProjection (rp.go) ====================== *)
\* New fills t rows of n cells each: n * t is at most MaxCells
MaxCells == 6

\* the three branches of the loop body of New (rp.go:30-35):
\* rM == 0, else rP == 0, else neither
Branches == {"M", "P", "none"}

\* make([]int, len) (rp.go:28): a slice of len zeros
Zeros(len) == [x \in 1..len |-> 0]

\* the indices j < upto the loop appends for branch b, in the order of the
\* appends (rp.go:29-36)
RECURSIVE Appended(_, _, _)
Appended(rowDraw, b, upto) ==
    IF upto = 0 THEN <<>>
    ELSE LET before == Appended(rowDraw, b, upto - 1)
         IN  IF rowDraw[upto - 1] = b THEN Append(before, upto - 1) ELSE before

\* New(n, t, randomseed) (rp.go:22-54); draw[i][j] is the branch the seeded
\* source selects for row i and index j. orderedM and orderedP start as
\* make([]int, n / 6), a slice that already holds n / 6 zeros, and the drawn
\* indices are appended behind them.
New(n, t, draw) ==
    [M |-> [i \in 1..t |-> Zeros(n \div 6) \o Appended(draw[i], "M", n)],
     P |-> [i \in 1..t |-> Zeros(n \div 6) \o Appended(draw[i], "P", n)],
     n |-> n,
     t |-> t]

\* the sum of v[val] over the indices val of a stored list (rp.go:67-72);
\* Go indices start at 0
RECURSIVE SumAt(_, _)
SumAt(idx, v) ==
    IF idx = <<>> THEN 0 ELSE v[Head(idx) + 1] + SumAt(Tail(idx), v)

\* r[i] of Project, in units of scale = Sqrt(3 / t) (rp.go:64-73): every term
\* is v[val] * scale, subtracted for M[i] and added for P[i]
ProjectRow(mM, mP, v, i) == SumAt(mP[i], v) - SumAt(mM[i], v)

\* v[val] with val >= len(v) is an index out of range: a run-time panic
IndexOutOfRange(mM, mP, t, v) ==
    \E i \in 1..t :
        \/ \E j \in 1..Len(mM[i]) : mM[i][j] >= Len(v)
        \/ \E j \in 1..Len(mP[i]) : mP[i][j] >= Len(v)

\* what Project(v) returns (rp.go:61-76); there is no check of len(v)
ProjectOut(mM, mP, t, v) ==
    IF IndexOutOfRange(mM, mP, t, v) THEN [panic |-> TRUE, r |-> <<>>]
    ELSE [panic |-> FALSE, r |-> [i \in 1..t |-> ProjectRow(mM, mP, v, i)]]

\* the basis vector e_i of dimension n, and the all-ones vector of a length
Basis(n, i) == [j \in 1..n |-> IF j = i + 1 THEN 1 ELSE 0]
Ones(len) == [j \in 1..len |-> 1]

\* the vectors Project is called with: every basis vector of dimension n, one
\* vector that is too short and one that is too long
ProjVectors(n) == {Basis(n, i) : i \in 0..(n - 1)} \cup {Ones(n - 1), Ones(n + 1)}

\* the observation of one Project call
Observe(v, out) ==
    /\ projLast' = [op |-> "Project", v |-> v, out |-> out]
    /\ projRef' = IF projRef.set THEN projRef ELSE [set |-> TRUE, v |-> v, out |-> out]
    /\ projOther' = (projOther \/ (projRef.set /\ v # projRef.v))

\* a Project that uses up the negative index lists it has read
ProjectConsuming(v) ==
    /\ rpT > 0
    /\ ~projLast.out.panic
    /\ Observe(v, ProjectOut(rpM, rpP, rpT, v))
    /\ rpM' = [i \in 1..rpT |-> <<>>]
    /\ UNCHANGED <<rpP, rpN, rpT>>
    /\ UNCHANGED <<sketchVars, obsVars, simpleVars, parseVars>>

\* Project(v) (rp.go:61-76): reads M, P and t, assigns no field. A panic ends
\* the program.
Project(v) ==
    /\ rpT > 0
    /\ ~projLast.out.panic
    /\ Observe(v, ProjectOut(rpM, rpP, rpT, v))
    /\ UNCHANGED rpVars
    /\ UNCHANGED <<sketchVars, obsVars, simpleVars, parseVars>>

\* a projection built by New(n, t, seed) for some seed
InitProj ==
    /\ SketchIs(NewKHHCountMinSketch(0, <<0, 0>>))
    /\ trueCount = [x \in AllLabels |-> 0]
    /\ last = NoCall
    /\ calls = NoCalls
    /\ SimpleIdle
    /\ \E n \in 1..MaxCells : \E t \in 1..MaxCells :
          /\ n * t <= MaxCells
          /\ \E draw \in [1..t -> [0..(n - 1) -> Branches]] :
                LET this == New(n, t, draw)
                IN  /\ rpM = this.M
                    /\ rpP = this.P
                    /\ rpN = this.n
                    /\ rpT = this.t
    /\ projLast = NoProject
    /\ projRef = NoRef
    /\ projOther = FALSE
    /\ ParseIdle

NextProj == \E v \in ProjVectors(rpN) : Project(v)

SpecProj == InitProj /\ [][NextProj]_vars

(* ========================= Parser (parser.go) ========================= *)
\* the field keys of the JSON tables are "field-1" .. "field-MaxKeys", written
\* 1..MaxKeys
MaxKeys == 2
\* largest number of JSON objects in one table
MaxRows == 2
\* largest number of JSONToFloat64Matrix calls on one Parser
MaxParses == 2

FieldKeys == 1..MaxKeys
\* the labels a table is stored under in its data set
TableLabels == {"a", "b"}
\* a JSON object of a table is written as the set of its field keys; its
\* values are numbers or strings, and which they are decides no length
JSONObjects == SUBSET FieldKeys
Tables == UNION {[1..c -> JSONObjects] : c \in 0..MaxRows}

\* the orders in which  for key, value := range jsonMap  (parser.go:200) can
\* visit the keys S: the iteration order of a Go map is not specified
RECURSIVE RangeOrders(_)
RangeOrders(S) ==
    IF S = {} THEN {<<>>}
    ELSE UNION {{<<x>> \o p : p \in RangeOrders(S \ {x})} : x \in S}

\* this.schemaKeys after the loop of CreateSchema (parser.go:195-220) over the
\* objects rows, for every iteration order: a key that is not yet in the
\* local map schema is appended. keys is this.schemaKeys so far, seen the keys
\* of the local schema.
RECURSIVE CreateSchemaKeys(_, _, _)
CreateSchemaKeys(keys, seen, rows) ==
    IF rows = <<>> THEN {keys}
    ELSE LET fresh == Head(rows) \ seen
         IN  UNION {CreateSchemaKeys(keys \o p, seen \cup fresh, Tail(rows)) :
                        p \in RangeOrders(fresh)}

\* the keys of the map CreateSchema returns (parser.go:192, 205, 221): the
\* local map starts empty at every call
CreateSchema(rows) == UNION {rows[i] : i \in 1..Len(rows)}

\* jsonMap[key] of a key the object lacks is nil, and
\* ConvertInterfaceToFloat64(nil) calls Type() on the zero reflect.Value
\* (parser.go:178-180): a run-time panic
ConvertPanics(keys, jsonMap) == \E i \in 1..Len(keys) : keys[i] \notin jsonMap

\* JSONToFloat64(jsonMap) (parser.go:94-107): one element per entry of
\* this.schemaKeys; element i is written as the key whose normalized value
\* it is
JSONToFloat64(keys, jsonMap) == [i \in 1..Len(keys) |-> keys[i]]

\* the matrix of JSONToFloat64Matrix (parser.go:141-150), or the panic
MatrixOf(keys, rows) ==
    IF \E i \in 1..Len(rows) : ConvertPanics(keys, rows[i])
    THEN [panic |-> TRUE, matrix |-> <<>>]
    ELSE [panic |-> FALSE,
          matrix |-> [i \in 1..Len(rows) |-> JSONToFloat64(keys, rows[i])]]

\* JSONToFloat64Matrix(label, dataSet) with dataSet[label] = rows
\* (parser.go:132-151). A panic ends the program.
JSONToFloat64Matrix(lbl, rows) ==
    /\ parseLast.calls < MaxParses
    /\ ~parseLast.out.panic
    /\ parserLabel' = lbl
    /\ schema' = CreateSchema(rows)
    /\ \E keys \in CreateSchemaKeys(schemaKeys, {}, rows) :
          /\ schemaKeys' = keys
          /\ parseLast' = [op |-> "JSONToFloat64Matrix", rows |-> rows,
                           out |-> MatrixOf(keys, rows),
                           calls |-> parseLast.calls + 1]
    /\ UNCHANGED <<sketchVars, obsVars, simpleVars, projVars>>

\* NewParser() (parser.go:70-77)
InitParse ==
    /\ SketchIs(NewKHHCountMinSketch(0, <<0, 0>>))
    /\ trueCount = [x \in AllLabels |-> 0]
    /\ last = NoCall
    /\ calls = NoCalls
    /\ SimpleIdle
    /\ ProjIdle
    /\ ParseIdle

NextParse == \E lbl \in TableLabels : \E rows \in Tables : JSONToFloat64Matrix(lbl, rows)

SpecParse == InitParse /\ [][NextParse]_vars

(* ======================= the claims, C1 .. C10 ======================== *)

\* C1: the estimate AddLong returns for x, and the estimate Add stores in the
\* count map for x, is at least the total count added for x so far: the sketch
\* never underestimates.
C1_NeverUnderestimates ==
    /\ last.op \in {"Add", "AddLong"} => last.ret >= trueCount[HashCode(last.item)]
    /\ last.op = "Add" =>
          /\ HashCode(last.item) \in DOMAIN countlist
          /\ countlist[HashCode(last.item)] >= trueCount[HashCode(last.item)]

\* an AddLong with a count of 2 on an item added before, after another item
\* was added too, whose estimate exceeds the true count (a collision in every row)
C1_Witness ==
    /\ last.op = "AddLong"
    /\ last.count = 2
    /\ calls.add >= 1
    /\ trueCount[last.item] >= 3
    /\ last.ret > trueCount[last.item]

\* C2: after every completed Add the priority queue holds at most k entries.
C2_QueueWithinCapacity == last.op = "Add" => Len(priorityQueue) <= k

\* an Add that overflowed a queue of capacity 3 and polled one entry
C2_Witness ==
    /\ last.op = "Add"
    /\ last.polled # <<>>
    /\ k = 3
    /\ Len(priorityQueue) = k

\* C3: every label with an entry in the priority queue has an entry in the
\* count map and an entry in the membership map.
C3_QueueEntriesHaveMapEntries ==
    \A l \in QueueLabels(priorityQueue) :
        /\ HashCode(l) \in DOMAIN countlist
        /\ HashCode(l) \in DOMAIN items

\* C4: when an Add makes the queue exceed k, the polled label is deleted from
\* the membership map and from the count map.
C4_EvictedLabelLeavesBothMaps ==
    (last.op = "Add" /\ last.polled # <<>>) =>
        \A i \in 1..Len(last.polled) :
            /\ last.polled[i] \notin DOMAIN items
            /\ last.polled[i] \notin DOMAIN countlist

\* C5: when Add(e) finds e in the membership map, the entry it removes from the
\* queue before the re-insertion is e's own, the queue then holds exactly one
\* entry for e, and the count map holds the new estimate for e.
C5_ReAddReplacesOwnEntry ==
    (last.op = "Add" /\ last.tracked) =>
        /\ last.dequeued = last.item
        /\ last.entriesAfterReadd = 1
        /\ HashCode(last.item) \in DOMAIN countlist
        /\ countlist[HashCode(last.item)] = last.ret

\* C6: an Add made after GetTop either leaves table, size, queue and maps
\* unchanged (it is rejected) or resets the drained result, so that the next
\* GetTop does not return the result of before the Add.
C6_AddAfterGetTopRejectedOrRestarts ==
    [][(~topcent.nil /\ last'.op = "Add" /\ calls'.add = calls.add + 1) =>
          \/ UNCHANGED <<table, size, priorityQueue, items, countlist>>
          \/ topcent'.nil]_vars

\* ceil(K * ln K), and the capacity clamped to at least 1
CeilKLnK(bigK) == ((bigK * LnMicro(bigK)) + (LnScale - 1)) \div LnScale
ClampedCapacity(bigK) == IF CeilKLnK(bigK) < 1 THEN 1 ELSE CeilKLnK(bigK)

\* C7: the capacity of the sketch the Map pass builds for the target cluster
\* count K is ceil(K * ln K), and at least 1.
C7_MapCapacityIsClampedCeiling == pc = "map" => k = ClampedCapacity(soK)

\* C8: in the Reduce pass no vector updates more than one centroid.
C8_VectorUpdatesOneCentroid ==
    \A i, j \in 1..Len(reduceLog.updates) :
        reduceLog.updates[i].vec = reduceLog.updates[j].vec => i = j

\* C9: when the Reduce pass returns, every vector it fetched from the iterator
\* has been hashed and matched, each exactly once and in order.
C9_ReduceHashesEveryVector ==
    pc = "reduced" => reduceLog.hashed = reduceLog.fetched

RECURSIVE SumOver(_, _)
SumOver(S, f) ==
    IF S = {} THEN 0
    ELSE LET x == CHOOSE y \in S : TRUE
         IN  f[x] + SumOver(S \ {x}, f)

\* the table that the multiset tc of added items determines
TableOfCounts(tc) ==
    [i \in 0..(depth - 1) |->
        [j \in 0..(width - 1) |->
            SumOver({x \in DOMAIN tc : Hash(x, i) = j}, tc)]]

\* C11: the counter table and size depend only on the multiset of the items
\* added (how often each item was added), not on the order of the calls.
C11_TableDependsOnMultiset ==
    /\ table = TableOfCounts(trueCount)
    /\ size = SumOver(DOMAIN trueCount, trueCount)

\* three Add calls on at least two different items, one of them added twice
C11_Witness ==
    /\ calls.add = 3
    /\ calls.addLong = 0
    /\ \E x, y \in Items : x # y /\ trueCount[x] = 2 /\ trueCount[y] = 1

\* the least element of a finite set of integers
MinOfSet(S) == CHOOSE c \in S : \A d \in S : c <= d

C16_FirstGetTopDrainsInOrder ==
    [][(topcent.nil /\ last'.op = "GetTop") =>
          /\ ~topcent'.nil
          /\ last'.top = topcent'
          /\ topcent'.elems = [i \in 1..Len(priorityQueue) |-> priorityQueue[i].label]
          /\ ~counts'.nil
          /\ Len(counts'.elems) = Len(topcent'.elems)
          /\ \A i \in 1..Len(topcent'.elems) :
                /\ HashCode(topcent'.elems[i]) \in DOMAIN countlist
                /\ counts'.elems[i] = countlist[HashCode(topcent'.elems[i])]
          /\ priorityQueue' = <<>>]_vars

\* a first GetTop that returned two labels or more
C16_Witness ==
    /\ last.op = "GetTop"
    /\ ~last.drainedBefore
    /\ Len(last.top.elems) >= 2
    /\ priorityQueue = <<>>

\* C17: once GetTop has run, topcent and counts are fixed, and every later
\* GetTop or GetCounts returns them and changes nothing of the sketch.
C17_GetTopIsIdempotent ==
    [][~topcent.nil =>
          /\ ~counts.nil
          /\ topcent' = topcent
          /\ counts' = counts
          /\ last'.op \in {"GetTop", "GetCounts"} =>
                /\ UNCHANGED sketchVars
                /\ last'.top = topcent
                /\ last'.cnts = counts]_vars

\* a GetCounts after the first GetTop, which had returned some label
C17_Witness ==
    /\ last.op = "GetCounts"
    /\ last.drainedBefore
    /\ last.top.elems # <<>>
    /\ last.top = topcent
    /\ last.cnts = counts

\* C18: a vector is added to a centroid only if one of the label values of
\* LSHHashStream(vec, blurs) lies in the centroid's label set.
C18_UpdateNeedsMatchingLabelValue ==
    \A u \in 1..Len(reduceLog.updates) :
        LET upd == reduceLog.updates[u]
            hash == LSHHashStream(data[upd.vec], NumberOfBlurs)
        IN  \E j \in 1..Len(hash) : hash[j] \in centroids[upd.cent].ids

\* C19: every coefficient hashA[i] the constructor draws lies in [1, 2^31 - 1).
C19_HashCoefficientsNonZero ==
    \A i \in DOMAIN hashA : hashA[i] >= 1 /\ hashA[i] < PRIME_MODULUS

\* C20: as long as only Add has been called, every label in the membership map
\* has exactly one entry in the priority queue.
C20_TrackedLabelHasOneEntry ==
    topcent.nil =>
        \A h \in DOMAIN items : EntriesOf(priorityQueue, items[h]) = 1

\* C12: for every basis vector e_i of the construction dimension and every
\* output row r, Project(e_i)[r] is scale times (1 if i occurs in P[r], else 0)
\* minus (1 if i occurs in M[r], else 0); outputs are in units of scale.
C12_BasisVectorReadsTheMatrixEntry ==
    \A i \in 0..(rpN - 1) :
        (projLast.op = "Project" /\ projLast.v = Basis(rpN, i)) =>
            /\ ~projLast.out.panic
            /\ \A r \in 1..rpT :
                  projLast.out.r[r] = (IF InSeq(i, rpP[r]) THEN 1 ELSE 0)
                                      - (IF InSeq(i, rpM[r]) THEN 1 ELSE 0)

\* C13: a Project call with a vector whose length differs from n ends in a
\* fatal error, it returns no vector.
C13_DimensionMismatchIsFatal ==
    (projLast.op = "Project" /\ Len(projLast.v) # rpN) => projLast.out.panic

\* C14: Project leaves M, P, n and t unchanged, and every Project call on the
\* vector of the first call returns what the first call returned, whatever
\* calls came in between.
C14_ProjectKeepsTheProjection ==
    [][/\ UNCHANGED rpVars
       /\ (projRef.set /\ projLast'.op = "Project" /\ projLast'.v = projRef.v)
             => projLast'.out = projRef.out]_vars

\* the first vector projected again after a call on another vector, with an
\* output that has a non-zero coordinate
C14_Witness ==
    /\ projLast.op = "Project"
    /\ projOther
    /\ projLast.v = projRef.v
    /\ projLast.out = projRef.out
    /\ ~projLast.out.panic
    /\ \E r \in 1..rpT : projLast.out.r[r] # 0

\* C21: after any number of runs over the restarted input, the stream object
\* and the Simple hold one centroid per top label of the latest run, not the
\* centroids of all the runs one after the other.
C21_RunsDoNotGrowTheCentroids ==
    (pc = "ran" /\ reduceLog.restarted) =>
        /\ Len(soCentroids.elems) = Len(topIDs.elems)
        /\ simCentroids = soCentroids

\* C22: every row the latest JSONToFloat64Matrix call returns has exactly one
\* element per distinct field key of the table just parsed, whatever calls
\* came before on the same Parser.
C22_RowHasOneElementPerKey ==
    (parseLast.op = "JSONToFloat64Matrix" /\ ~parseLast.out.panic) =>
        \A i \in 1..Len(parseLast.out.matrix) :
            LET row == parseLast.out.matrix[i]
                keysOfTable == UNION {parseLast.rows[r] : r \in 1..Len(parseLast.rows)}
            IN  /\ Len(row) = Cardinality(keysOfTable)
                /\ \A key \in keysOfTable :
                      Cardinality({j \in 1..Len(row) : row[j] = key}) = 1

====
